---- MODULE Spec2Model ----
(***************************************************************************)
(* FIBRIL voice allocation: the rank model (fibril_classes.py), the event  *)
(* handlers of FibrilMain (fibril_main.py) and the allocator               *)
(* FibrilAlgorithm (fibril-algorithms.py) as a state machine.              *)
(*                                                                         *)
(* Probabilities are kept by their support: a MIDI value can be drawn iff  *)
(* its weight in global_probability_map is > 0.  Every factor of a weight  *)
(* (indicator of the valid destinations, voice-leading bias, Gaussian,     *)
(* rank weight) is either exactly 0 or strictly positive, and the Gaussian *)
(* never underflows on 0..127, so the support is exact.                    *)
(***************************************************************************)
EXTENDS Integers, Sequences, FiniteSets, TLC

(***************************************************************************)
(* Bounds of the model (the program has 48 voices and 8 ranks).            *)
(***************************************************************************)
NumVoices == 3
NumRanks == 2
MaxDraw == 3
MaxEvents == 4
MaxMessages == 3

(***************************************************************************)
(* Program constants.                                                      *)
(***************************************************************************)
MidiSize == 128
Octaves == 11

VoiceIds == 1..NumVoices
RankNumbers == 1..NumRanks
Midi == 0..(MidiSize - 1)

\* Inputs of the model: the values the events carry.
KeyCenters == {60, 66}
Tonicizations == {7}
Slots == {0, 1}

\* FibrilSystem.__init__: the tonicization and the priority position of
\* each rank, and the notes a voice may start with.
rank_tonicizations == <<6, 2, 1, 4, 3, 5, 7, 8>>
rank_positions == <<5, 3, 1, 2, 6, 4, 7, 8>>
midi_notes == {48, 55, 60, 67, 72, 79}
\* the part of midi_notes the initial voice table is drawn from
SeedNotes == {n \in midi_notes : n = 60}

(***************************************************************************)
(* fibril_classes.py : Rank                                                *)
(***************************************************************************)
RECURSIVE BitXor(_, _)
BitXor(a, b) ==
    IF a = 0 /\ b = 0 THEN 0
    ELSE (((a % 2) + (b % 2)) % 2) + 2 * BitXor(a \div 2, b \div 2)

RECURSIVE XorShifts(_, _)
\* the loop "while mask: res ^= mask; mask >>= 1"
XorShifts(mask, res) ==
    IF mask = 0 THEN res ELSE XorShifts(mask \div 2, BitXor(res, mask))

\* a decoder that reads the four bits as a plain binary number
_grey_to_int_plain_binary(grey) ==
    8 * grey[1] + 4 * grey[2] + 2 * grey[3] + grey[4]

_grey_to_int(grey) ==
    LET b == 8 * grey[1] + 4 * grey[2] + 2 * grey[3] + grey[4]
    IN  XorShifts(b, 0)

\* a density table that is twice the ones count
density_map_doubled(ones_count) ==
    2 * ones_count

density_map(ones_count) ==
    CASE ones_count = 0 -> 0
      [] ones_count = 1 -> 2
      [] ones_count = 2 -> 3
      [] ones_count = 3 -> 4
      [] ones_count = 4 -> 6
      [] OTHER -> 0

\* Rank.__post_init__: density from the ones count, previous_gci := gci,
\* gci recomputed from the grey code.
__post_init__(rank) ==
    [rank EXCEPT !.density = density_map(rank.grey_code[1] + rank.grey_code[2]
                                         + rank.grey_code[3] + rank.grey_code[4]),
                 !.previous_gci = rank.gci,
                 !.gci = _grey_to_int(rank.grey_code)]

_get_scale_degree_offset(degree) ==
    CASE degree = 1 -> 0
      [] degree = 2 -> 2
      [] degree = 3 -> 4
      [] degree = 4 -> 5
      [] degree = 5 -> 7
      [] degree = 6 -> 9
      [] degree = 7 -> 11
      [] degree = 8 -> 0
      [] OTHER -> 0

base_intervals == <<0, 7, 4, 2, 5, 9, 11, 14, 17>>
major_scale_offsets == {0, 2, 4, 5, 7, 9, 11}
whole_tone_offsets == {0, 2, 4, 6, 8, 10}

\* the closest note of key_notes in the given direction, as an adjustment
\* of at most 6 semitones; 0 when there is none
_find_closest_in_key(target_note, key_notes, direction) ==
    LET hits == {k \in 1..6 : ((target_note + direction * k) % 12) \in key_notes}
    IN  IF hits = {} THEN 0
        ELSE direction * (CHOOSE k \in hits : \A j \in hits : k <= j)

_should_adjust_up(interval) ==
    IF interval \in {2, 5} THEN TRUE
    ELSE IF interval \in {11, 17} THEN FALSE
    ELSE TRUE

\* The intervals one base interval contributes (none or one), for the
\* scale key_notes; closer = TRUE is the whole-tone rule.
FitInterval(rank_tonic, interval, key_notes, closer) ==
    LET target_note == (rank_tonic + interval) % 12
        closest_up == _find_closest_in_key(target_note, key_notes, 1)
        closest_down == _find_closest_in_key(target_note, key_notes, -1)
        up_interval == interval + closest_up
        down_interval == interval + closest_down
        Abs(x) == IF x < 0 THEN -x ELSE x
    IN  IF target_note \in key_notes
        THEN IF interval = 6 \/ interval = 20 THEN {} ELSE {interval}
        ELSE IF up_interval = 6 \/ up_interval = 20
             THEN IF down_interval # 6 /\ down_interval # 20
                  THEN {down_interval} ELSE {}
             ELSE IF down_interval = 6 \/ down_interval = 20
                  THEN {up_interval}
                  ELSE IF closer
                       THEN IF Abs(closest_up) <= Abs(closest_down)
                            THEN {up_interval} ELSE {down_interval}
                       ELSE IF _should_adjust_up(interval)
                            THEN {up_interval} ELSE {down_interval}

_fit_to_major_scale(rank_tonic, key_center) ==
    LET key_notes == {(key_center + offset) % 12 : offset \in major_scale_offsets}
    IN  UNION {FitInterval(rank_tonic, base_intervals[i], key_notes, FALSE) :
               i \in 1..Len(base_intervals)}

_fit_to_whole_tone_scale(rank_tonic, key_center) ==
    LET key_notes == {(key_center + offset) % 12 : offset \in whole_tone_offsets}
    IN  UNION {FitInterval(rank_tonic, base_intervals[i], key_notes, TRUE) :
               i \in 1..Len(base_intervals)}

\* Rank.get_valid_destinations: every fitted interval in every octave,
\* reduced modulo 128.
get_valid_destinations(rank, key_center) ==
    LET rank_tonic == (key_center + _get_scale_degree_offset(rank.tonicization)) % 12
        destinations == IF rank.tonicization = 8
                        THEN _fit_to_whole_tone_scale(rank_tonic, key_center)
                        ELSE _fit_to_major_scale(rank_tonic, key_center)
    IN  {(rank_tonic + interval + octave * 12) % MidiSize :
         interval \in destinations, octave \in 0..(Octaves - 1)}

(***************************************************************************)
(* fibril-algorithms.py : FibrilAlgorithm.  A system state is a record     *)
(* [ranks, voices, sustain, key_center, previous_sustain, frozen_voices];  *)
(* voices is indexed by the voice id (Python index + 1).                   *)
(***************************************************************************)
Sounding(voices) == {i \in VoiceIds : voices[i].volume > 0}
SoundingNotes(voices) == {voices[i].midi_note : i \in Sounding(voices)}

_get_active_ranks(ranks) == {n \in RankNumbers : ranks[n].density > 0}

\* the set of sustained MIDI notes: the sounding notes when the pedal is
\* down.  (The branch for more than 48 sounding voices cannot be taken:
\* there are only 48 voices.)
_handle_sustain(st) ==
    IF st.sustain THEN SoundingNotes(st.voices) ELSE {}

_get_rank_root(rank, key_center) ==
    LET offset == CASE rank.tonicization = 1 -> 0
                    [] rank.tonicization = 2 -> 2
                    [] rank.tonicization = 3 -> 4
                    [] rank.tonicization = 4 -> 5
                    [] rank.tonicization = 5 -> 7
                    [] rank.tonicization = 6 -> 9
                    [] rank.tonicization = 7 -> 11
                    [] rank.tonicization = 8 -> 0
                    [] OTHER -> 0
    IN  (key_center + offset) % 12

\* base octave 4 + int(((8 - priority) / 8.0) * 2), kept inside 0..127
_choose_optimal_octave(midi_note_class, rank_priority) ==
    LET base_octave == 4 + ((8 - rank_priority) * 2) \div 8
        target_midi == midi_note_class + base_octave * 12
    IN  IF target_midi > 127 THEN (127 - midi_note_class) \div 12
        ELSE IF target_midi < 0 THEN ((-midi_note_class) \div 12) + 1
        ELSE base_octave

\* the first silent voice; when every voice sounds, the first voice with
\* the highest MIDI note
_find_or_steal_voice(voices) ==
    LET silent == {i \in VoiceIds : voices[i].volume = 0}
    IN  IF silent # {}
        THEN CHOOSE i \in silent : \A j \in silent : i <= j
        ELSE CHOOSE i \in VoiceIds :
                 /\ \A j \in VoiceIds : voices[j].midi_note <= voices[i].midi_note
                 /\ \A j \in VoiceIds :
                        voices[j].midi_note = voices[i].midi_note => i <= j

_force_allocate_note(voices, midi_note_class, rank_priority) ==
    LET best_octave == _choose_optimal_octave(midi_note_class, rank_priority)
        target_midi == midi_note_class + best_octave * 12
        target_voice_idx == _find_or_steal_voice(voices)
    IN  [voices EXCEPT ![target_voice_idx].midi_note = target_midi,
                       ![target_voice_idx].volume = 1]

\* one rank of the loop of _ensure_rooted_notes
EnsureRank(voices, rank, key_center, sustained_notes) ==
    LET root_midi == _get_rank_root(rank, key_center)
        fifth_midi == (root_midi + 7) % 12
        Present(pc, vs) ==
            \E oct \in 0..(Octaves - 1) :
                \/ (pc + oct * 12) \in sustained_notes
                \/ \E i \in VoiceIds : vs[i].volume > 0 /\ vs[i].midi_note % 12 = pc
        v1 == IF Present(root_midi, voices) THEN voices
              ELSE _force_allocate_note(voices, root_midi, rank.position)
    IN  IF Present(fifth_midi, v1) THEN v1
        ELSE _force_allocate_note(v1, fifth_midi, rank.position)

RECURSIVE EnsureFrom(_, _, _, _)
\* the loop over the active ranks, in list order, from rank n on
EnsureFrom(voices, n, st, sustained_notes) ==
    IF n > NumRanks THEN voices
    ELSE IF st.ranks[n].density > 0
         THEN EnsureFrom(EnsureRank(voices, st.ranks[n], st.key_center,
                                    sustained_notes),
                         n + 1, st, sustained_notes)
         ELSE EnsureFrom(voices, n + 1, st, sustained_notes)

_ensure_rooted_notes(st, sustained_notes) ==
    EnsureFrom(st.voices, 1, st, sustained_notes)

\* the centre of the Gaussian octave bias _build_global_probability_map
\* gives a rank
priority_bias_center(rank) == 60 + (8 - rank.position) * 6

\* ProbabilityCurve.voice_leading_bias: the MIDI values with weight > 0
voice_leading_bias(current_notes, direction) ==
    IF current_notes = {} THEN Midi
    ELSE {midi \in Midi : \E current_note \in current_notes :
              LET distance == midi - current_note
              IN  \/ direction > 0 /\ 1 <= distance /\ distance <= 5
                  \/ direction < 0 /\ 1 <= -distance /\ -distance <= 5
                  \/ direction = 0 /\ -2 <= distance /\ distance <= 2}

\* the MIDI values with weight > 0 in the global probability map
_build_global_probability_map(voices, st) ==
    LET current_notes == SoundingNotes(voices)
        rank_curve(rank) ==
            LET valid_destinations == get_valid_destinations(rank, st.key_center)
                gci_direction == rank.gci - rank.previous_gci
            IN  IF gci_direction # 0
                THEN valid_destinations \cap
                     voice_leading_bias(current_notes,
                                        IF gci_direction > 0 THEN 1 ELSE -1)
                ELSE valid_destinations
    IN  UNION {rank_curve(st.ranks[n]) : n \in _get_active_ranks(st.ranks)}

\* the n-th smallest element of a set of integers
Nth(S, n) == CHOOSE x \in S : Cardinality({y \in S : y < x}) = n - 1

NoNote == -1

\* a sampler that forgets the forbidden notes
_sample_from_probability_map_unfiltered(global_probability_map, forbidden_notes, r) ==
    LET valid_indices == global_probability_map
        k == Cardinality(valid_indices)
    IN  IF valid_indices = {} THEN NoNote
        ELSE Nth(valid_indices, 1 + (r * (k - 1)) \div (MaxDraw - 1))

\* a sampler that falls back on the first note of the map, or on note 0,
\* when nothing is admissible
_sample_from_probability_map_falls_back(global_probability_map, forbidden_notes, r) ==
    LET valid_indices == global_probability_map \ forbidden_notes
        k == Cardinality(valid_indices)
    IN  IF valid_indices = {}
        THEN IF global_probability_map = {} THEN 0 ELSE Nth(global_probability_map, 1)
        ELSE Nth(valid_indices, 1 + (r * (k - 1)) \div (MaxDraw - 1))

\* the note drawn when the random value falls on position r of MaxDraw
\* evenly spread positions of the admissible notes (r = 0: the first one,
\* r = MaxDraw - 1: the last one); NoNote when nothing is admissible
_sample_from_probability_map(global_probability_map, forbidden_notes, r) ==
    LET valid_indices == global_probability_map \ forbidden_notes
        k == Cardinality(valid_indices)
    IN  IF valid_indices = {} THEN NoNote
        ELSE Nth(valid_indices, 1 + (r * (k - 1)) \div (MaxDraw - 1))

RECURSIVE AllocLoop(_, _, _, _)
\* the voice tables the sampling loop can end with
AllocLoop(voices, forbidden_notes, remaining, global_probability_map) ==
    IF remaining <= 0 THEN {voices}
    ELSE UNION {
        LET selected_midi == _sample_from_probability_map(global_probability_map,
                                                           forbidden_notes, r)
        IN  IF selected_midi = NoNote
            THEN AllocLoop(voices, forbidden_notes, remaining - 1,
                           global_probability_map)
            ELSE LET voice_idx == _find_or_steal_voice(voices)
                 IN  AllocLoop([voices EXCEPT ![voice_idx].midi_note = selected_midi,
                                              ![voice_idx].volume = 1],
                               forbidden_notes \cup {selected_midi},
                               remaining - 1, global_probability_map)
        : r \in 0..(MaxDraw - 1)}

\* a sampling stage that adds no voice
_allocate_remaining_voices_adds_none(voices, available_voices, sustained_notes, global_probability_map) ==
    {voices}

_allocate_remaining_voices(voices, available_voices, sustained_notes, global_probability_map) ==
    LET allocated_count == Cardinality(Sounding(voices))
        remaining_allocations == available_voices - allocated_count
    IN  IF remaining_allocations <= 0 THEN {voices}
        ELSE AllocLoop(voices, sustained_notes \cup SoundingNotes(voices),
                       remaining_allocations, global_probability_map)

Min(a, b) == IF a < b THEN a ELSE b

RECURSIVE SumDensity(_, _)
SumDensity(ranks, n) ==
    IF n > NumRanks THEN 0 ELSE ranks[n].density + SumDensity(ranks, n + 1)

RECURSIVE SilenceFrom(_, _)
\* the loop "for voice in new_state.voices: voice.volume = 0", from voice i
SilenceFrom(voices, i) ==
    IF i > NumVoices THEN voices
    ELSE SilenceFrom([voices EXCEPT ![i].volume = 0], i + 1)

\* a pass that returns without silencing when no rank is active
allocate_voices_returns_early(st) ==
    IF _get_active_ranks(st.ranks) = {}
    THEN {st.voices}
    ELSE LET sustained_notes == _handle_sustain(st)
             rooted == _ensure_rooted_notes(st, sustained_notes)
             total_density == SumDensity(st.ranks, 1)
             available_voices == Min(NumVoices,
                                     total_density + Cardinality(sustained_notes))
             global_probability_map == _build_global_probability_map(rooted, st)
         IN  _allocate_remaining_voices(rooted, available_voices, sustained_notes,
                                        global_probability_map)

\* FibrilAlgorithm.allocate_voices: the voice tables one pass can produce
allocate_voices(st) ==
    IF _get_active_ranks(st.ranks) = {}
    THEN {SilenceFrom(st.voices, 1)}
    ELSE LET sustained_notes == _handle_sustain(st)
             rooted == _ensure_rooted_notes(st, sustained_notes)
             total_density == SumDensity(st.ranks, 1)
             available_voices == Min(NumVoices,
                                     total_density + Cardinality(sustained_notes))
             global_probability_map == _build_global_probability_map(rooted, st)
         IN  _allocate_remaining_voices(rooted, available_voices, sustained_notes,
                                        global_probability_map)

(***************************************************************************)
(* fibril_classes.py : Rank.copy and SystemState.copy.  Rank.copy builds   *)
(* the new rank with the constructor, which runs __post_init__ on it.      *)
(***************************************************************************)
Rank_copy(rank) == __post_init__(rank)

SystemState_copy(st) ==
    [st EXCEPT !.ranks = [n \in RankNumbers |-> Rank_copy(st.ranks[n])]]

(***************************************************************************)
(* The sustain freeze machine.  No code under src/ writes frozen_voices,   *)
(* Voice.sustained or previous_sustain (fibril_classes.py only declares    *)
(* them), so this part follows the specification, sections 4.5.1 and 4.6.  *)
(* The allocator above never reads these three fields.                     *)
(***************************************************************************)
FrozenNotes(frozen) == {e[2] : e \in frozen}
FrozenIds(frozen) == {e[1] : e \in frozen}

RECURSIVE FreezeFrom(_, _, _)
RECURSIVE FreezeFrom_unmarked(_, _, _)
\* freezing that records the entry but leaves the sustained flag alone
FreezeFrom_unmarked(st, ids, i) ==
    IF i > NumVoices THEN st
    ELSE IF i \in ids /\ st.voices[i].midi_note \notin FrozenNotes(st.frozen_voices)
         THEN FreezeFrom_unmarked([st EXCEPT
                             !.frozen_voices = @ \cup {<<i, st.voices[i].midi_note>>}],
                         ids, i + 1)
         ELSE FreezeFrom_unmarked(st, ids, i + 1)

\* freeze the voices of ids, in id order from voice i on, skipping a voice
\* whose MIDI value is already frozen
FreezeFrom(st, ids, i) ==
    IF i > NumVoices THEN st
    ELSE IF i \in ids /\ st.voices[i].midi_note \notin FrozenNotes(st.frozen_voices)
         THEN FreezeFrom([st EXCEPT
                             !.frozen_voices = @ \cup {<<i, st.voices[i].midi_note>>},
                             !.voices[i].sustained = TRUE],
                         ids, i + 1)
         ELSE FreezeFrom(st, ids, i + 1)

RECURSIVE ReleaseFrom(_, _)
\* sustained = false on every voice, from voice i on
ReleaseFrom(voices, i) ==
    IF i > NumVoices THEN voices
    ELSE ReleaseFrom([voices EXCEPT ![i].sustained = FALSE], i + 1)

\* a falling edge that empties frozen_voices but leaves the flags set
SustainFreezeMachine_keeps_flags(st) ==
    IF ~st.previous_sustain /\ st.sustain
    THEN FreezeFrom(st, Sounding(st.voices), 1)
    ELSE IF st.previous_sustain /\ ~st.sustain
         THEN [st EXCEPT !.frozen_voices = {}]
         ELSE st

\* section 4.6: the transition on (previous_sustain, sustain)
SustainFreezeMachine(st) ==
    IF ~st.previous_sustain /\ st.sustain
    THEN FreezeFrom(st, Sounding(st.voices), 1)
    ELSE IF st.previous_sustain /\ ~st.sustain
         THEN [st EXCEPT !.frozen_voices = {},
                         !.voices = ReleaseFrom(st.voices, 1)]
         ELSE st

\* new allocations are never frozen
FreezeNewAllocations_never(st, before) == st

\* sections 4.5.1 (8) and 4.6: the voices a pass allocated while the pedal
\* is held are frozen too; before is the voice table the pass started from
FreezeNewAllocations(st, before) ==
    IF st.sustain
    THEN FreezeFrom(st,
                    {i \in VoiceIds :
                        /\ st.voices[i].volume > 0
                        /\ \/ before[i].volume = 0
                           \/ before[i].midi_note # st.voices[i].midi_note},
                    1)
    ELSE st

(***************************************************************************)
(* fibril_main.py : FibrilMain._generate_voice_response and                *)
(* fibril_udp.py : send_osc_messages_simple.  An entry of the cache        *)
(* previous_voice_states is NoState until the voice has been reported.     *)
(***************************************************************************)
NoState == [known |-> FALSE, midi |-> 0, volume |-> FALSE]

_generate_voice_response(vs, cache) ==
    [voices |->
        {[id |-> i, midi_note |-> vs[i].midi_note,
          volume |-> IF vs[i].volume > 0 THEN 1 ELSE 0,
          midi_changed |-> (~cache[i].known \/ cache[i].midi # vs[i].midi_note),
          volume_changed |-> (~cache[i].known \/ cache[i].volume # (vs[i].volume > 0))] :
         i \in {j \in VoiceIds :
                   \/ ~cache[j].known
                   \/ cache[j].midi # vs[j].midi_note
                   \/ cache[j].volume # (vs[j].volume > 0)}},
     active_count |-> Cardinality({i \in VoiceIds : vs[i].volume > 0})]

\* the cache _generate_voice_response leaves behind
TrackedStates(vs) ==
    [i \in VoiceIds |->
        [known |-> TRUE, midi |-> vs[i].midi_note, volume |-> (vs[i].volume > 0)]]

\* both messages are sent for every voice of the response
send_osc_messages_simple_both(response_data) ==
    {[address |-> a, id |-> v.id,
      value |-> IF a = "MIDI" THEN v.midi_note ELSE v.volume] :
        v \in response_data.voices, a \in {"MIDI", "Volume"}}
    \cup {[address |-> "active_count", id |-> 0,
           value |-> response_data.active_count]}

send_osc_messages_simple(response_data) ==
    {[address |-> "MIDI", id |-> v.id, value |-> v.midi_note] :
        v \in {w \in response_data.voices : w.midi_changed}}
    \cup {[address |-> "Volume", id |-> v.id, value |-> v.volume] :
        v \in {w \in response_data.voices : w.volume_changed}}
    \cup {[address |-> "active_count", id |-> 0,
           value |-> response_data.active_count]}

(***************************************************************************)
(* State: the fields of FibrilMain.system_state, the dirty flag            *)
(* state_change_pending, the emitter cache previous_voice_states, sent,    *)
(* the OSC messages the last allocator pass sent, and pre, the state that  *)
(* pass started from (sent and pre are kept until the next event).         *)
(* For the threads of the running program: pc, where the listener thread   *)
(* and the buffer Timer thread stand; new_state, the copy each thread's    *)
(* allocator call works on; elapsed, whether buffer_time has passed since  *)
(* last_buffer_time; update, the rank update the listener is in the middle *)
(* of; unserved, whether a message changed the state after the last copy   *)
(* an allocator call took.                                                 *)
(***************************************************************************)
VARIABLES ranks, voices, sustain, key_center, previous_sustain,
          frozen_voices, state_change_pending, previous_voice_states, sent,
          pre, nev, pc, new_state, elapsed, update, unserved, response, host

vars == <<ranks, voices, sustain, key_center, previous_sustain,
          frozen_voices, state_change_pending, previous_voice_states, sent,
          pre, nev, pc, new_state, elapsed, update, unserved, response, host>>

threadvars == <<pc, new_state, elapsed, update, unserved>>

\* response: the messages of a finished pass its thread has still to send;
\* host: what the receiver of the voice messages holds for each voice
hostvars == <<response, host>>

system_state ==
    [ranks |-> ranks, voices |-> voices, sustain |-> sustain,
     key_center |-> key_center, previous_sustain |-> previous_sustain,
     frozen_voices |-> frozen_voices]

InitRank(n) ==
    __post_init__([number |-> n, position |-> rank_positions[n],
                   grey_code |-> <<0, 0, 0, 0>>, gci |-> 0, density |-> 0,
                   tonicization |-> rank_tonicizations[n], previous_gci |-> 0])

NoPre == [ticked |-> FALSE, ranks |-> [n \in RankNumbers |-> InitRank(n)],
          voices |-> [i \in VoiceIds |->
                         [midi_note |-> 60, volume |-> 0, sustained |-> FALSE]],
          sustain |-> FALSE, key_center |-> 60, previous_sustain |-> FALSE,
          frozen_voices |-> {},
          previous_voice_states |-> [i \in VoiceIds |-> NoState],
          global_probability_map |-> {}]

NoLocal ==
    [ranks |-> [n \in RankNumbers |-> InitRank(n)],
     voices |-> [i \in VoiceIds |->
                    [midi_note |-> 60, volume |-> 0, sustained |-> FALSE]],
     sustain |-> FALSE, key_center |-> 60, previous_sustain |-> FALSE,
     frozen_voices |-> {}]

NoUpdate == [rank_number |-> 0, changed |-> FALSE, stale |-> FALSE]

\* FibrilSystem.__init__ and FibrilMain.__init__
Init ==
    /\ ranks = [n \in RankNumbers |-> InitRank(n)]
    /\ voices \in [VoiceIds -> {[midi_note |-> m, volume |-> 0, sustained |-> FALSE] :
                                m \in SeedNotes}]
    /\ sustain = FALSE
    /\ key_center = 60
    /\ previous_sustain = FALSE
    /\ frozen_voices = {}
    /\ state_change_pending = FALSE
    /\ previous_voice_states = [i \in VoiceIds |-> NoState]
    /\ sent = {}
    /\ pre = NoPre
    /\ nev = 0
    /\ pc = [listener |-> "recv", timer |-> "idle"]
    /\ new_state = [listener |-> NoLocal, timer |-> NoLocal]
    /\ elapsed = FALSE
    /\ update = NoUpdate
    /\ unserved = FALSE
    /\ response = [listener |-> {}, timer |-> {}]
    /\ host = [i \in VoiceIds |-> NoState]

(***************************************************************************)
(* fibril_main.py : FibrilMain._update_system_state, one action per kind   *)
(* of message; process_message sets state_change_pending when the handler  *)
(* reports a change.                                                       *)
(***************************************************************************)
\* every message marks a pending state change
Event_always_pending(changed) ==
    /\ nev < MaxEvents
    /\ nev' = nev + 1
    /\ state_change_pending' = TRUE
    /\ sent' = {}
    /\ pre' = NoPre
    /\ UNCHANGED <<previous_voice_states, threadvars, hostvars>>

Event(changed) ==
    /\ nev < MaxEvents
    /\ nev' = nev + 1
    /\ state_change_pending' = (state_change_pending \/ changed)
    /\ sent' = {}
    /\ pre' = NoPre
    /\ UNCHANGED <<previous_voice_states, threadvars, hostvars>>

\* a bit update that writes the slot after the one it was given
rank_update_next_slot(rank_number, bit_index, value) ==
    LET rank == ranks[rank_number]
        set == [rank EXCEPT !.grey_code[((bit_index + 1) % 4) + 1] = IF value > 0 THEN 1 ELSE 0]
        new_rank == __post_init__(set)
    IN  /\ ranks' = [ranks EXCEPT ![rank_number] = new_rank]
        /\ Event(rank.grey_code # new_rank.grey_code)
        /\ UNCHANGED <<voices, sustain, key_center, previous_sustain, frozen_voices>>

rank_update(rank_number, bit_index, value) ==
    LET rank == ranks[rank_number]
        stored == [rank EXCEPT !.previous_gci = rank.gci]
        set == [stored EXCEPT !.grey_code[bit_index + 1] = IF value > 0 THEN 1 ELSE 0]
        new_rank == __post_init__(set)
    IN  /\ ranks' = [ranks EXCEPT ![rank_number] = new_rank]
        /\ Event(rank.grey_code # new_rank.grey_code)
        /\ UNCHANGED <<voices, sustain, key_center, previous_sustain, frozen_voices>>

rank_tonicization(rank_number, tonicization) ==
    /\ ranks' = [ranks EXCEPT ![rank_number].tonicization = tonicization]
    /\ Event(ranks[rank_number].tonicization # tonicization)
    /\ UNCHANGED <<voices, sustain, key_center, previous_sustain, frozen_voices>>

sustain_update(value) ==
    /\ sustain' = (value # 0)
    /\ Event(sustain # (value # 0))
    /\ UNCHANGED <<ranks, voices, key_center, previous_sustain, frozen_voices>>

key_center_update(new_key_center) ==
    /\ key_center' = new_key_center
    /\ Event(key_center # new_key_center)
    /\ UNCHANGED <<ranks, voices, sustain, previous_sustain, frozen_voices>>

\* the probability map a pass on st builds; empty when no rank is active
\* and the pass builds none
PassMap(st) ==
    IF _get_active_ranks(st.ranks) = {} THEN {}
    ELSE _build_global_probability_map(
             _ensure_rooted_notes(st, _handle_sustain(st)), st)

(***************************************************************************)
(* fibril_main.py : FibrilMain._process_buffered_state_change, one         *)
(* allocator pass (a tick).                                                *)
(***************************************************************************)
\* a pass that does not record the pedal value it observed
_process_buffered_state_change_forgets_pedal ==
    /\ state_change_pending
    /\ LET copied == SystemState_copy(system_state)
           held == SustainFreezeMachine(copied)
       IN  \E new_voices \in allocate_voices(held) :
               LET done == FreezeNewAllocations([held EXCEPT !.voices = new_voices],
                                                held.voices)
               IN  /\ ranks' = done.ranks
                   /\ voices' = done.voices
                   /\ frozen_voices' = done.frozen_voices
                   /\ previous_sustain' = previous_sustain
                   /\ sent' = send_osc_messages_simple(
                                  _generate_voice_response(done.voices,
                                                           previous_voice_states))
                   /\ previous_voice_states' = TrackedStates(done.voices)
    /\ state_change_pending' = FALSE
    /\ pre' = [ticked |-> TRUE, ranks |-> ranks, voices |-> voices,
               sustain |-> sustain, key_center |-> key_center,
               previous_sustain |-> previous_sustain,
               frozen_voices |-> frozen_voices,
               previous_voice_states |-> previous_voice_states,
               global_probability_map |->
                   PassMap(SustainFreezeMachine(SystemState_copy(system_state)))]
    /\ UNCHANGED <<sustain, key_center, nev, threadvars, hostvars>>

_process_buffered_state_change ==
    /\ state_change_pending
    /\ LET copied == SystemState_copy(system_state)
           held == SustainFreezeMachine(copied)
       IN  \E new_voices \in allocate_voices(held) :
               LET done == FreezeNewAllocations([held EXCEPT !.voices = new_voices],
                                                held.voices)
               IN  /\ ranks' = done.ranks
                   /\ voices' = done.voices
                   /\ frozen_voices' = done.frozen_voices
                   /\ previous_sustain' = done.sustain
                   /\ sent' = send_osc_messages_simple(
                                  _generate_voice_response(done.voices,
                                                           previous_voice_states))
                   /\ previous_voice_states' = TrackedStates(done.voices)
    /\ state_change_pending' = FALSE
    /\ pre' = [ticked |-> TRUE, ranks |-> ranks, voices |-> voices,
               sustain |-> sustain, key_center |-> key_center,
               previous_sustain |-> previous_sustain,
               frozen_voices |-> frozen_voices,
               previous_voice_states |-> previous_voice_states,
               global_probability_map |->
                   PassMap(SustainFreezeMachine(SystemState_copy(system_state)))]
    /\ UNCHANGED <<sustain, key_center, nev, threadvars, hostvars>>

Next ==
    \/ \E n \in RankNumbers, b \in Slots, v \in {0, 1} : rank_update(n, b, v)
    \/ \E n \in RankNumbers, t \in Tonicizations : rank_tonicization(n, t)
    \/ \E v \in {0, 1} : sustain_update(v)
    \/ \E m \in KeyCenters : key_center_update(m)
    \/ _process_buffered_state_change

Spec == Init /\ [][Next]_vars

(***************************************************************************)
(* The rank model on all four bits: rank_update (fibril_main.py) for every *)
(* slot of every rank, and the allocator pass.                             *)
(***************************************************************************)
AllSlots == {0, 1, 2, 3}

RankNext ==
    \/ \E n \in RankNumbers, b \in AllSlots, v \in {0, 1} : rank_update(n, b, v)
    \/ _process_buffered_state_change

RankSpec == Init /\ [][RankNext]_vars

(***************************************************************************)
(* Direct updates: process_message called with a dictionary that carries   *)
(* a 'ranks' list sets a rank's whole grey code in one message             *)
(* (fibril_main.py, "legacy support for direct updates").                  *)
(***************************************************************************)
GreyCodes == {<<0, 0, 0, 0>>, <<1, 0, 0, 0>>, <<1, 1, 0, 0>>, <<1, 1, 1, 1>>}

ranks_update(rank_number, grey_code) ==
    LET rank == ranks[rank_number]
        new_rank == __post_init__([rank EXCEPT !.grey_code = grey_code])
    IN  /\ ranks' = [ranks EXCEPT ![rank_number] = new_rank]
        /\ Event(rank.grey_code # grey_code)
        /\ UNCHANGED <<voices, sustain, key_center, previous_sustain, frozen_voices>>

DirectNext ==
    \/ \E n \in RankNumbers, g \in GreyCodes : ranks_update(n, g)
    \/ \E n \in RankNumbers, t \in Tonicizations : rank_tonicization(n, t)
    \/ \E v \in {0, 1} : sustain_update(v)
    \/ \E m \in KeyCenters : key_center_update(m)
    \/ _process_buffered_state_change

DirectSpec == Init /\ [][DirectNext]_vars

(***************************************************************************)
(* fibril-algorithms.py : FibrilAlgorithm._allocate_remaining_voices as a  *)
(* function of the voice table, the budget, the sustained notes and the    *)
(* probability map it is given.  The inputs are drawn from small sets: a   *)
(* map over SampleNotes, voice tables over the same notes with distinct    *)
(* sounding notes, the budget of allocate_voices for the ranks drawn.      *)
(***************************************************************************)
SampleNotes == {60, 62, 64}

SamplerInit ==
    /\ ranks \in [RankNumbers ->
                    {__post_init__([InitRank(n) EXCEPT !.grey_code = g]) :
                         n \in RankNumbers, g \in GreyCodes}]
    /\ \A n \in RankNumbers : ranks[n].number = n
    /\ voices \in [VoiceIds -> {[midi_note |-> m, volume |-> v, sustained |-> FALSE] :
                                m \in SampleNotes, v \in {0, 1}}]
    /\ \A i, j \in Sounding(voices) : i # j => voices[i].midi_note # voices[j].midi_note
    /\ sustain \in BOOLEAN
    /\ key_center = 60
    /\ previous_sustain = FALSE
    /\ frozen_voices = {}
    /\ state_change_pending = FALSE
    /\ previous_voice_states = [i \in VoiceIds |-> NoState]
    /\ sent = {}
    /\ pre = NoPre
    /\ nev = 0
    /\ pc = [listener |-> "recv", timer |-> "idle"]
    /\ new_state = [listener |-> NoLocal, timer |-> NoLocal]
    /\ elapsed = FALSE
    /\ update = NoUpdate
    /\ unserved = FALSE
    /\ response = [listener |-> {}, timer |-> {}]
    /\ host = [i \in VoiceIds |-> NoState]

\* steps 4 and 6 of allocate_voices on a given map
allocate_remaining(global_probability_map) ==
    /\ ~pre.ticked
    /\ LET sustained_notes == _handle_sustain(system_state)
           available_voices == Min(NumVoices, SumDensity(ranks, 1)
                                                 + Cardinality(sustained_notes))
       IN  voices' \in _allocate_remaining_voices(voices, available_voices,
                                                  sustained_notes,
                                                  global_probability_map)
    /\ pre' = [ticked |-> TRUE, ranks |-> ranks, voices |-> voices,
               sustain |-> sustain, key_center |-> key_center,
               previous_sustain |-> previous_sustain,
               frozen_voices |-> frozen_voices,
               previous_voice_states |-> previous_voice_states,
               global_probability_map |-> global_probability_map]
    /\ UNCHANGED <<ranks, sustain, key_center, previous_sustain, frozen_voices,
                   state_change_pending, previous_voice_states, sent, nev,
                   threadvars, hostvars>>

SamplerNext == \E m \in SUBSET SampleNotes : allocate_remaining(m)

SamplerSpec == SamplerInit /\ [][SamplerNext]_vars

(***************************************************************************)
(* The tonal functions (Rank.get_valid_destinations, _get_rank_root and    *)
(* the forced root and fifth) as functions of the key centre and of the    *)
(* tonicization: every key centre a key-centre message can set, every      *)
(* tonicization of 1..9 for rank 1, rank 1 at grey code 1100 with its      *)
(* change still to be processed, and the allocator pass.                   *)
(***************************************************************************)
ToneTonicizations == 1..9

ToneInit ==
    /\ \E t \in ToneTonicizations :
           ranks = [n \in RankNumbers |->
                       IF n = 1
                       THEN __post_init__([InitRank(n) EXCEPT
                                               !.grey_code = <<1, 1, 0, 0>>,
                                               !.tonicization = t])
                       ELSE InitRank(n)]
    /\ voices \in [VoiceIds -> {[midi_note |-> m, volume |-> 0, sustained |-> FALSE] :
                                m \in SeedNotes}]
    /\ sustain = FALSE
    /\ key_center \in Midi
    /\ previous_sustain = FALSE
    /\ frozen_voices = {}
    /\ state_change_pending = TRUE
    /\ previous_voice_states = [i \in VoiceIds |-> NoState]
    /\ sent = {}
    /\ pre = NoPre
    /\ nev = 0
    /\ pc = [listener |-> "recv", timer |-> "idle"]
    /\ new_state = [listener |-> NoLocal, timer |-> NoLocal]
    /\ elapsed = FALSE
    /\ update = NoUpdate
    /\ unserved = FALSE
    /\ response = [listener |-> {}, timer |-> {}]
    /\ host = [i \in VoiceIds |-> NoState]

ToneNext == _process_buffered_state_change

ToneSpec == ToneInit /\ [][ToneNext]_vars

(***************************************************************************)
(* The listener on the wire: fibril_udp.py parse_osc_message_for_fibril    *)
(* turns an OSC address and its integer argument into a message, and       *)
(* FibrilMain.process_message applies it (fibril_main.py).  An address is  *)
(* a record: head "R" stands for the text "/R<rank_number>_<tail>", any    *)
(* other head for the text "/<head>".  A key a message does not have is    *)
(* the empty string, and has_value is FALSE when it has no 'value'.        *)
(***************************************************************************)
WireTails == {"1000", "0100", "priority", "tonicization"}
WireRanks == 0..(NumRanks + 1)
WireAddresses ==
    {[head |-> "R", rank_number |-> n, tail |-> t] : n \in WireRanks, t \in WireTails}
    \cup {[head |-> h, rank_number |-> 0, tail |-> ""] :
          h \in {"sustain", "keyCenter", "key_center"}}
WireValues == {-1, 0, 1, 66, 128}

\* every address that starts with /R and holds an underscore takes the
\* first branch, the priority and tonicization addresses included
parse_osc_message_for_fibril(address, value) ==
    IF address.head = "R"
    THEN [type |-> "rank_update", address |-> "", rank_number |-> address.rank_number,
          bit_pattern |-> address.tail, has_value |-> TRUE, value |-> value]
    ELSE IF address.head = "sustain"
    THEN [type |-> "sustain", address |-> "", rank_number |-> 0,
          bit_pattern |-> "", has_value |-> TRUE, value |-> value]
    ELSE IF address.head = "key_center"
    THEN [type |-> "key_center", address |-> "", rank_number |-> 0,
          bit_pattern |-> "", has_value |-> TRUE, value |-> value]
    ELSE [type |-> "", address |-> address.head, rank_number |-> 0,
          bit_pattern |-> "", has_value |-> FALSE, value |-> 0]

bit_map(bit_pattern) ==
    CASE bit_pattern = "1000" -> 0
      [] bit_pattern = "0100" -> 1
      [] bit_pattern = "0010" -> 2
      [] bit_pattern = "0001" -> 3
      [] OTHER -> -1

\* FibrilMain._update_system_state on a message of the parser: the new
\* ranks, sustain and key_center and the state_changed it returns.  (The
\* rank_priority and rank_tonicization branches and the legacy keys need a
\* message the parser does not build.)
_update_system_state(st, message) ==
    LET same == [ranks |-> st.ranks, sustain |-> st.sustain,
                 key_center |-> st.key_center, state_changed |-> FALSE]
    IN  IF message.type = "rank_update"
        THEN IF /\ message.rank_number # 0
                /\ message.bit_pattern # ""
                /\ message.has_value
                /\ message.rank_number \in RankNumbers
             THEN LET rank == st.ranks[message.rank_number]
                      stored == [rank EXCEPT !.previous_gci = rank.gci]
                      bit_index == bit_map(message.bit_pattern)
                      set == [stored EXCEPT !.grey_code[bit_index + 1] =
                                                IF message.value > 0 THEN 1 ELSE 0]
                      new_rank == IF bit_index >= 0 THEN __post_init__(set) ELSE stored
                  IN  [same EXCEPT !.ranks[message.rank_number] = new_rank,
                                   !.state_changed = (rank.grey_code # new_rank.grey_code)]
             ELSE same
        ELSE IF message.address = "sustain"
        THEN [same EXCEPT !.sustain = (message.has_value /\ message.value # 0),
                          !.state_changed =
                              (st.sustain # (message.has_value /\ message.value # 0))]
        ELSE IF message.address = "keyCenter" \/ message.type = "key_center"
        THEN IF message.has_value
             THEN [same EXCEPT !.key_center = message.value,
                               !.state_changed = (st.key_center # message.value)]
             ELSE same
        ELSE same

\* UDPHandler._listen_loop for one datagram: parse, then process_message
listen(address, value) ==
    LET message == parse_osc_message_for_fibril(address, value)
        updated == _update_system_state(system_state, message)
    IN  /\ ranks' = updated.ranks
        /\ sustain' = updated.sustain
        /\ key_center' = updated.key_center
        /\ Event(updated.state_changed)
        /\ UNCHANGED <<voices, previous_sustain, frozen_voices>>

WireNext ==
    \/ \E address \in WireAddresses, value \in WireValues : listen(address, value)
    \/ _process_buffered_state_change

WireSpec == Init /\ [][WireNext]_vars

(***************************************************************************)
(* The allocator pass as a function of the state it is given, for the      *)
(* states no run reaches: voice tables with two sounding voices on one     *)
(* note and frozen_voices with one note entered twice.                     *)
(***************************************************************************)
HealNotes == {60, 62}

DuplicateSounding(vs) ==
    \E i, j \in Sounding(vs) : i # j /\ vs[i].midi_note = vs[j].midi_note

DuplicateFrozen(frozen) ==
    \E e, f \in frozen : e # f /\ e[2] = f[2]

HealInit ==
    /\ \E g \in {<<0, 0, 0, 0>>, <<1, 0, 0, 0>>, <<1, 1, 0, 0>>} :
           ranks = [n \in RankNumbers |->
                       IF n = 1
                       THEN __post_init__([InitRank(n) EXCEPT !.grey_code = g])
                       ELSE InitRank(n)]
    /\ voices \in [VoiceIds -> {[midi_note |-> m, volume |-> v, sustained |-> FALSE] :
                                m \in HealNotes, v \in {0, 1}}]
    /\ sustain \in BOOLEAN
    /\ key_center = 60
    /\ previous_sustain \in BOOLEAN
    /\ frozen_voices \in SUBSET (VoiceIds \X HealNotes)
    /\ DuplicateSounding(voices) \/ DuplicateFrozen(frozen_voices)
    /\ state_change_pending = TRUE
    /\ previous_voice_states = [i \in VoiceIds |-> NoState]
    /\ sent = {}
    /\ pre = NoPre
    /\ nev = 0
    /\ pc = [listener |-> "recv", timer |-> "idle"]
    /\ new_state = [listener |-> NoLocal, timer |-> NoLocal]
    /\ elapsed = FALSE
    /\ update = NoUpdate
    /\ unserved = FALSE
    /\ response = [listener |-> {}, timer |-> {}]
    /\ host = [i \in VoiceIds |-> NoState]

HealNext == _process_buffered_state_change

HealSpec == HealInit /\ [][HealNext]_vars

(***************************************************************************)
(* The running program (FibrilMain.run): the listener thread of            *)
(* fibril_udp.py : UDPHandler._listen_loop calls process_message for each  *)
(* message, and the threading.Timer it arms calls                          *)
(* _delayed_buffer_processing.  Nothing locks system_state, so a pass is   *)
(* three steps of the thread that runs it: the copy allocate_voices takes, *)
(* the allocation with the installation of its result, and the clearing of *)
(* state_change_pending.                                                   *)
(***************************************************************************)
\* self.system_state = new_state
Install(st) ==
    /\ ranks' = st.ranks
    /\ voices' = st.voices
    /\ sustain' = st.sustain
    /\ key_center' = st.key_center
    /\ previous_sustain' = st.previous_sustain
    /\ frozen_voices' = st.frozen_voices

\* the copy a pass works on, after its sustain edge handling
ReadState(st) == SustainFreezeMachine(SystemState_copy(st))

\* process_message once _update_system_state has returned state_changed and
\* left the state st
Decide(changed, st) ==
    IF ~changed
    THEN /\ pc' = [pc EXCEPT !["listener"] = "recv"]
         /\ UNCHANGED <<state_change_pending, new_state, unserved>>
    ELSE /\ state_change_pending' = TRUE
         /\ IF elapsed
            THEN /\ pc' = [pc EXCEPT !["listener"] = "allocating"]
                 /\ new_state' = [new_state EXCEPT !["listener"] = ReadState(st)]
                 /\ unserved' = FALSE
            ELSE /\ pc' = [pc EXCEPT !["listener"] = "recv",
                                      !["timer"] = IF @ \in {"idle", "expired"}
                                                   THEN "armed" ELSE @]
                 /\ unserved' = TRUE
                 /\ UNCHANGED new_state

\* a message reaches the listener
Receive ==
    /\ pc["listener"] = "recv"
    /\ nev < MaxMessages
    /\ nev' = nev + 1
    /\ sent' = {}
    /\ UNCHANGED <<pre, previous_voice_states, elapsed, hostvars>>

\* rank_update up to the assignment of the bit
listen_rank_update_begin(rank_number, bit_index, value) ==
    /\ Receive
    /\ LET rank == ranks[rank_number]
           stored == [rank EXCEPT !.previous_gci = rank.gci]
           set == [stored EXCEPT !.grey_code[bit_index + 1] = IF value > 0 THEN 1 ELSE 0]
       IN  /\ ranks' = [ranks EXCEPT ![rank_number] = set]
           /\ update' = [rank_number |-> rank_number,
                         changed |-> rank.grey_code # set.grey_code,
                         stale |-> FALSE]
    /\ pc' = [pc EXCEPT !["listener"] = "updating"]
    /\ UNCHANGED <<voices, sustain, key_center, previous_sustain, frozen_voices,
                   state_change_pending, new_state, unserved>>

\* rank_update from rank.__post_init__() on; the rank object is no longer
\* part of system_state when a pass has installed its result meanwhile
listen_rank_update_end ==
    /\ pc["listener"] = "updating"
    /\ ranks' = IF update.stale THEN ranks
                ELSE [ranks EXCEPT ![update.rank_number] = __post_init__(@)]
    /\ update' = NoUpdate
    /\ Decide(update.changed, [system_state EXCEPT !.ranks = ranks'])
    /\ UNCHANGED <<voices, sustain, key_center, previous_sustain, frozen_voices,
                   previous_voice_states, sent, pre, nev, elapsed, hostvars>>

listen_rank_tonicization(rank_number, tonicization) ==
    /\ Receive
    /\ ranks' = [ranks EXCEPT ![rank_number].tonicization = tonicization]
    /\ Decide(ranks[rank_number].tonicization # tonicization,
              [system_state EXCEPT !.ranks = ranks'])
    /\ UNCHANGED <<voices, sustain, key_center, previous_sustain, frozen_voices,
                   update>>

listen_sustain(value) ==
    /\ Receive
    /\ sustain' = (value # 0)
    /\ Decide(sustain # (value # 0), [system_state EXCEPT !.sustain = (value # 0)])
    /\ UNCHANGED <<ranks, voices, key_center, previous_sustain, frozen_voices,
                   update>>

listen_key_center(new_key_center) ==
    /\ Receive
    /\ key_center' = new_key_center
    /\ Decide(key_center # new_key_center,
              [system_state EXCEPT !.key_center = new_key_center])
    /\ UNCHANGED <<ranks, voices, sustain, previous_sustain, frozen_voices,
                   update>>

\* a message no branch of _update_system_state handles
listen_unknown ==
    /\ Receive
    /\ UNCHANGED <<ranks, voices, sustain, key_center, previous_sustain,
                   frozen_voices, state_change_pending, pc, new_state, update,
                   unserved>>

\* recvfrom raises something other than socket.timeout: the loop breaks
receive_error ==
    /\ pc["listener"] = "recv"
    /\ pc' = [pc EXCEPT !["listener"] = "stopped"]
    /\ UNCHANGED <<ranks, voices, sustain, key_center, previous_sustain,
                   frozen_voices, state_change_pending, previous_voice_states,
                   sent, pre, nev, new_state, elapsed, update, unserved, hostvars>>

\* buffer_time has passed since last_buffer_time; an armed Timer is due
time_passes ==
    /\ ~elapsed
    /\ elapsed' = TRUE
    /\ pc' = [pc EXCEPT !["timer"] = IF @ = "armed" THEN "due" ELSE @]
    /\ UNCHANGED <<ranks, voices, sustain, key_center, previous_sustain,
                   frozen_voices, state_change_pending, previous_voice_states,
                   sent, pre, nev, new_state, update, unserved, hostvars>>

\* a Timer that starts a pass whether or not a state change is pending
_delayed_buffer_processing_unconditional ==
    /\ pc["timer"] = "due"
    /\ pc' = [pc EXCEPT !["timer"] = "allocating"]
    /\ new_state' = [new_state EXCEPT !["timer"] = ReadState(system_state)]
    /\ unserved' = FALSE
    /\ UNCHANGED <<ranks, voices, sustain, key_center, previous_sustain,
                   frozen_voices, state_change_pending, previous_voice_states,
                   sent, pre, nev, elapsed, update, hostvars>>

\* the Timer fires; it ends at once ("expired") when nothing is pending
_delayed_buffer_processing ==
    /\ pc["timer"] = "due"
    /\ IF state_change_pending
       THEN /\ pc' = [pc EXCEPT !["timer"] = "allocating"]
            /\ new_state' = [new_state EXCEPT !["timer"] = ReadState(system_state)]
            /\ unserved' = FALSE
       ELSE /\ pc' = [pc EXCEPT !["timer"] = "expired"]
            /\ UNCHANGED <<new_state, unserved>>
    /\ UNCHANGED <<ranks, voices, sustain, key_center, previous_sustain,
                   frozen_voices, state_change_pending, previous_voice_states,
                   sent, pre, nev, elapsed, update, hostvars>>

\* allocate_voices returns; its result is installed and reported, and
\* last_buffer_time is set
allocate_and_install(t) ==
    /\ pc[t] = "allocating"
    /\ \E new_voices \in allocate_voices(new_state[t]) :
           LET done == FreezeNewAllocations([new_state[t] EXCEPT !.voices = new_voices],
                                            new_state[t].voices)
           IN  /\ Install([done EXCEPT !.previous_sustain = done.sustain])
               /\ sent' = send_osc_messages_simple(
                              _generate_voice_response(done.voices,
                                                       previous_voice_states))
               /\ previous_voice_states' = TrackedStates(done.voices)
    /\ elapsed' = FALSE
    /\ pc' = [pc EXCEPT ![t] = "installed"]
    /\ new_state' = [new_state EXCEPT ![t] = NoLocal]
    /\ update' = IF update = NoUpdate THEN update ELSE [update EXCEPT !.stale = TRUE]
    /\ UNCHANGED <<state_change_pending, pre, nev, unserved, hostvars>>

\* self.state_change_pending = False, and the return
finish_pass(t) ==
    /\ pc[t] = "installed"
    /\ state_change_pending' = FALSE
    /\ pc' = [pc EXCEPT ![t] = IF t = "listener" THEN "recv" ELSE "idle"]
    /\ UNCHANGED <<ranks, voices, sustain, key_center, previous_sustain,
                   frozen_voices, previous_voice_states, sent, pre, nev,
                   new_state, elapsed, update, unserved, hostvars>>

ThreadNext ==
    \/ \E n \in RankNumbers, b \in Slots, v \in {0, 1} :
           listen_rank_update_begin(n, b, v)
    \/ listen_rank_update_end
    \/ \E n \in RankNumbers, t \in Tonicizations : listen_rank_tonicization(n, t)
    \/ \E v \in {0, 1} : listen_sustain(v)
    \/ \E m \in KeyCenters : listen_key_center(m)
    \/ listen_unknown
    \/ receive_error
    \/ time_passes
    \/ _delayed_buffer_processing
    \/ \E t \in {"listener", "timer"} : allocate_and_install(t)
    \/ \E t \in {"listener", "timer"} : finish_pass(t)

ThreadSpec == Init /\ [][ThreadNext]_vars

(***************************************************************************)
(* The running program with the sending of the responses.                  *)
(* _process_buffered_state_change returns the response of                  *)
(* _generate_voice_response, and the thread that ran the pass sends it     *)
(* afterwards: the listener in UDPHandler._listen_loop, the Timer in       *)
(* _delayed_buffer_processing, both through UDPHandler._send_response.     *)
(* A pass is here four steps of its thread: the copy, the allocation with  *)
(* the installation and the response, the clearing of the flag, and the    *)
(* sending.  The receiver stores the last value of each message it gets.   *)
(***************************************************************************)
\* the receiver's table once it got the messages of one response
Received(table, messages) ==
    [i \in VoiceIds |->
        LET midi == {m \in messages : m.address = "MIDI" /\ m.id = i}
            volume == {m \in messages : m.address = "Volume" /\ m.id = i}
        IN  [known |-> table[i].known \/ (midi # {} /\ volume # {}),
             midi |-> IF midi = {} THEN table[i].midi
                      ELSE (CHOOSE m \in midi : TRUE).value,
             volume |-> IF volume = {} THEN table[i].volume
                        ELSE (CHOOSE m \in volume : TRUE).value = 1]]

\* allocate_voices returns; the result is installed, the response is built
\* (which updates the cache) and last_buffer_time is set
install_and_respond(t) ==
    /\ pc[t] = "allocating"
    /\ \E new_voices \in allocate_voices(new_state[t]) :
           LET done == FreezeNewAllocations([new_state[t] EXCEPT !.voices = new_voices],
                                            new_state[t].voices)
           IN  /\ Install([done EXCEPT !.previous_sustain = done.sustain])
               /\ response' = [response EXCEPT ![t] =
                                  send_osc_messages_simple(
                                      _generate_voice_response(done.voices,
                                                               previous_voice_states))]
               /\ previous_voice_states' = TrackedStates(done.voices)
    /\ elapsed' = FALSE
    /\ pc' = [pc EXCEPT ![t] = "installed"]
    /\ new_state' = [new_state EXCEPT ![t] = NoLocal]
    /\ update' = IF update = NoUpdate THEN update ELSE [update EXCEPT !.stale = TRUE]
    /\ UNCHANGED <<state_change_pending, sent, pre, nev, unserved, host>>

\* self.state_change_pending = False, and the return of the response
return_response(t) ==
    /\ pc[t] = "installed"
    /\ state_change_pending' = FALSE
    /\ pc' = [pc EXCEPT ![t] = "sending"]
    /\ UNCHANGED <<ranks, voices, sustain, key_center, previous_sustain,
                   frozen_voices, previous_voice_states, sent, pre, nev,
                   new_state, elapsed, update, unserved, hostvars>>

\* UDPHandler._send_response: the messages leave, the receiver gets them
_send_response(t) ==
    /\ pc[t] = "sending"
    /\ sent' = response[t]
    /\ host' = Received(host, response[t])
    /\ response' = [response EXCEPT ![t] = {}]
    /\ pc' = [pc EXCEPT ![t] = IF t = "listener" THEN "recv" ELSE "idle"]
    /\ UNCHANGED <<ranks, voices, sustain, key_center, previous_sustain,
                   frozen_voices, state_change_pending, previous_voice_states,
                   pre, nev, new_state, elapsed, update, unserved>>

EmitNext ==
    \/ \E n \in RankNumbers, b \in Slots, v \in {0, 1} :
           listen_rank_update_begin(n, b, v)
    \/ listen_rank_update_end
    \/ \E n \in RankNumbers, t \in Tonicizations : listen_rank_tonicization(n, t)
    \/ \E v \in {0, 1} : listen_sustain(v)
    \/ \E m \in KeyCenters : listen_key_center(m)
    \/ time_passes
    \/ _delayed_buffer_processing
    \/ \E t \in {"listener", "timer"} : install_and_respond(t)
    \/ \E t \in {"listener", "timer"} : return_response(t)
    \/ \E t \in {"listener", "timer"} : _send_response(t)

EmitSpec == Init /\ [][EmitNext]_vars

(***************************************************************************)
(* Properties.  pre.ticked holds exactly in the states reached by an       *)
(* allocator pass; pre is then the state that pass started from.           *)
(***************************************************************************)
PreState ==
    [ranks |-> pre.ranks, voices |-> pre.voices, sustain |-> pre.sustain,
     key_center |-> pre.key_center, previous_sustain |-> pre.previous_sustain,
     frozen_voices |-> pre.frozen_voices]

\* the state of the last pass after its sustain edge handling
PreHeld == SustainFreezeMachine(SystemState_copy(PreState))

\* the voices the last pass allocated: sounding now, and silent or at
\* another pitch before
NewlyAllocated ==
    {i \in VoiceIds : /\ voices[i].volume > 0
                      /\ \/ pre.voices[i].volume = 0
                         \/ pre.voices[i].midi_note # voices[i].midi_note}

NonFrozenSounding == {i \in Sounding(voices) : i \notin FrozenIds(frozen_voices)}

\* C1: no two sounding voices have the same midi_note, frozen and
\* non-frozen voices taken together, whatever events (sustain presses and
\* releases included) came before.
C1_NoDuplicateSoundingNotes ==
    \A i, j \in VoiceIds :
        (i # j /\ voices[i].volume > 0 /\ voices[j].volume > 0)
            => voices[i].midi_note # voices[j].midi_note

\* a pass run with the pedal down has filled the voice table by sampling,
\* next to voices that were frozen before it
C1_Witness ==
    /\ pre.ticked /\ pre.sustain
    /\ pre.frozen_voices # {}
    /\ Cardinality(Sounding(voices)) = NumVoices
    /\ Cardinality(NewlyAllocated) >= 1

\* C2: while sustain stays held from one pass to the next, every entry
\* (vid, m) of frozen_voices before the pass is still there after it, and
\* voice vid still sounds at pitch m.
C2_FrozenVoicesUntouchedWhileHeld ==
    (pre.ticked /\ pre.previous_sustain /\ pre.sustain)
        => \A e \in pre.frozen_voices :
               /\ e \in frozen_voices
               /\ voices[e[1]].midi_note = e[2]
               /\ voices[e[1]].volume > 0

\* C3: after a pass that ran with sustain = false (the pass that sees the
\* falling edge included), frozen_voices is empty and no voice is sustained.
C3_ReleaseClearsSustained ==
    (pre.ticked /\ ~sustain)
        => /\ frozen_voices = {}
           /\ \A i \in VoiceIds : ~voices[i].sustained

\* a pass has seen the falling edge with frozen, sustained voices
C3_Witness ==
    /\ pre.ticked /\ ~sustain /\ pre.previous_sustain
    /\ pre.frozen_voices # {}
    /\ \E i \in VoiceIds : pre.voices[i].sustained

C5_FrozenEntriesLive ==
    pre.ticked
        => \A e \in frozen_voices :
               /\ voices[e[1]].midi_note = e[2]
               /\ voices[e[1]].volume > 0
               /\ voices[e[1]].sustained

\* C6: after every pass, the MIDI values recorded in frozen_voices are
\* pairwise distinct, and so are the voice ids.
C6_FrozenDistinct ==
    pre.ticked
        => \A e1, e2 \in frozen_voices :
               e1 # e2 => (e1[2] # e2[2] /\ e1[1] # e2[1])

C8_NonFrozenWithinBudget ==
    (pre.ticked /\ _get_active_ranks(ranks) # {})
        => Cardinality(NonFrozenSounding)
               <= Min(NumVoices - Cardinality(frozen_voices), SumDensity(ranks, 1))

\* C9: a pass run with every rank at density 0 leaves every voice that is
\* not in frozen_voices silent.
C9_NoActiveRankSilences ==
    (pre.ticked /\ \A n \in RankNumbers : pre.ranks[n].density = 0)
        => \A i \in VoiceIds :
               i \notin FrozenIds(frozen_voices) => voices[i].volume = 0

\* a pass has run with every rank at density 0 while voices were sounding
C9_Witness ==
    /\ pre.ticked
    /\ \A n \in RankNumbers : pre.ranks[n].density = 0
    /\ Cardinality(Sounding(pre.voices)) >= 2

\* C10: after a pass, if no active rank has tonicization 9, every sounding
\* non-frozen voice has a pitch class of the major scale on key_center.
C10_SoundingInKey ==
    (pre.ticked /\ \A n \in _get_active_ranks(ranks) : ranks[n].tonicization # 9)
        => \A i \in NonFrozenSounding :
               ((voices[i].midi_note - key_center) % 12) \in major_scale_offsets

\* C11: after a pass, provided at least one voice is not frozen, every
\* active rank has a sounding voice at the pitch class of its root or of its
\* perfect fifth; no forced note of a rank is stolen later in the same pass
\* so as to leave that rank with neither.
C11_ActiveRankRooted ==
    (pre.ticked /\ \E i \in VoiceIds : i \notin FrozenIds(frozen_voices))
        => \A n \in _get_active_ranks(ranks) :
               LET root_midi == _get_rank_root(ranks[n], key_center)
                   fifth_midi == (root_midi + 7) % 12
               IN  \E i \in Sounding(voices) :
                       voices[i].midi_note % 12 \in {root_midi, fifth_midi}

C19_ActiveCountOnChange ==
    (pre.ticked /\ \A i \in VoiceIds : pre.previous_voice_states[i].known)
        => \A m \in sent :
               m.address = "active_count"
                   => /\ Cardinality(Sounding(voices)) # Cardinality(Sounding(pre.voices))
                      /\ m.value = Cardinality(Sounding(voices))

\* the values control events target
TargetValues ==
    <<[n \in RankNumbers |-> <<ranks[n].grey_code, ranks[n].tonicization>>],
      sustain, key_center>>

\* C17: applying a control event sets the dirty flag if and only if it
\* changes the value it targets (the flag, once set, stays set until a pass);
\* an event that repeats a value leaves the flag as it was, and a step that
\* changes a voice or sends a message is taken only with the flag set.
C17_DirtyIffChanged ==
    [][/\ nev' = nev + 1
           => (state_change_pending'
                   <=> (state_change_pending \/ TargetValues' # TargetValues))
       /\ (voices' # voices \/ sent' # {}) => state_change_pending]_vars

\* after a pass, an event that repeated a value has been applied: nothing is
\* pending
C17_Witness ==
    /\ nev > 1
    /\ ~pre.ticked
    /\ ~state_change_pending
    /\ \A i \in VoiceIds : previous_voice_states[i].known
    /\ Sounding(voices) # {}

(***************************************************************************)
(* Properties of the running program (ThreadSpec).                         *)
(***************************************************************************)
\* a thread installs the result of its pass in this step
PassInstalls == \E t \in {"listener", "timer"} : pc[t] = "allocating" /\ pc'[t] = "installed"

\* a thread clears state_change_pending and leaves its pass in this step
PassFinishes == \E t \in {"listener", "timer"} : pc[t] = "installed" /\ pc'[t] # "installed"

\* the Timer fires in this step
TimerFires == pc["timer"] = "due" /\ pc'["timer"] # "due"

\* C12: at any moment at most one allocator invocation is executing.
C12_OneAllocatorInFlight ==
    ~(pc["listener"] = "allocating" /\ pc["timer"] = "allocating")

\* C13: an event that arrives while a pass is running is not lost: installing
\* the result of the pass leaves the values events target as the events set
\* them, and a pass that ends after a message changed the state (since the
\* last copy a pass took) leaves the dirty flag set.
C13_EventDuringPassKept ==
    [][/\ PassInstalls => TargetValues' = TargetValues
       /\ (PassFinishes /\ unserved) => state_change_pending']_vars

\* C14: the state a pass reads is never a rank observed midway through an
\* update: in the copy a pass works on every rank has previous_gci = gci,
\* which is what Rank.copy gives for a rank whose update is complete.
C14_PassReadsWholeUpdates ==
    \A t \in {"listener", "timer"} :
        pc[t] = "allocating"
            => \A n \in RankNumbers :
                   new_state[t].ranks[n].previous_gci = new_state[t].ranks[n].gci

C16_BurstGetsItsPass ==
    unserved => pc["timer"] \in {"armed", "due"}

\* C20: no error stops the pipeline: the listener thread, the only one that
\* applies arriving events, never stops.
C20_ListenerKeepsRunning ==
    pc["listener"] # "stopped"

(***************************************************************************)
(* Ranks: bit updates, density and the Gray decode (RankSpec).             *)
(***************************************************************************)
GreyValue(grey) == 8 * grey[1] + 4 * grey[2] + 2 * grey[3] + grey[4]

GreyBits(g) == <<(g \div 8) % 2, (g \div 4) % 2, (g \div 2) % 2, g % 2>>

BinaryToGray(b) == BitXor(b, b \div 2)

PopCount(grey) == grey[1] + grey[2] + grey[3] + grey[4]

DensityTable == <<0, 2, 3, 4, 6>>

\* C28: a bit update on a rank leaves previous_gci equal to the gci the rank
\* had just before, sets grey_code[slot] to the value, leaves the rank's
\* other three bits and every other rank unchanged, and recomputes gci and
\* density from the new grey_code.
C28_BitUpdatePostconditions ==
    [][\A n \in RankNumbers, b \in AllSlots, v \in {0, 1} :
          rank_update(n, b, v) =>
              /\ ranks'[n].previous_gci = ranks[n].gci
              /\ ranks'[n].grey_code[b + 1] = v
              /\ \A o \in AllSlots \ {b} :
                     ranks'[n].grey_code[o + 1] = ranks[n].grey_code[o + 1]
              /\ \A m \in RankNumbers \ {n} : ranks'[m] = ranks[m]
              /\ BinaryToGray(ranks'[n].gci) = GreyValue(ranks'[n].grey_code)
              /\ ranks'[n].density = DensityTable[PopCount(ranks'[n].grey_code) + 1]]_vars

C28_Witness ==
    /\ ~pre.ticked
    /\ ranks[1].grey_code = <<0, 0, 1, 1>>
    /\ ranks[1].gci = 2
    /\ ranks[1].previous_gci = 3

PreRooted == _ensure_rooted_notes(PreHeld, _handle_sustain(PreHeld))

PreMap == pre.global_probability_map

PreRemaining ==
    Min(NumVoices, SumDensity(PreHeld.ranks, 1)
                       + Cardinality(_handle_sustain(PreHeld)))
        - Cardinality(Sounding(PreRooted))

RECURSIVE DrawsAdmissible(_, _, _, _, _)
\* every draw of the sampling loop, at every draw position, returns a note
\* of the map that is neither sounding nor frozen
DrawsAdmissible(vs, forbidden_notes, remaining, global_probability_map, frozen) ==
    IF remaining <= 0 THEN TRUE
    ELSE \A r \in 0..(MaxDraw - 1) :
        LET selected_midi == _sample_from_probability_map(global_probability_map,
                                                           forbidden_notes, r)
        IN  IF selected_midi = NoNote
            THEN DrawsAdmissible(vs, forbidden_notes, remaining - 1,
                                 global_probability_map, frozen)
            ELSE /\ selected_midi \in global_probability_map
                 /\ selected_midi \notin SoundingNotes(vs)
                 /\ selected_midi \notin frozen
                 /\ LET voice_idx == _find_or_steal_voice(vs)
                    IN  DrawsAdmissible([vs EXCEPT ![voice_idx].midi_note = selected_midi,
                                                   ![voice_idx].volume = 1],
                                        forbidden_notes \cup {selected_midi},
                                        remaining - 1, global_probability_map, frozen)

\* C24: every MIDI value the weighted sampler returns has positive
\* probability in the map and is neither already sounding nor frozen, at
\* every value of the random draw, the lowest one included.
C24_SampleAdmissible ==
    (pre.ticked /\ _get_active_ranks(PreHeld.ranks) # {})
        => DrawsAdmissible(PreRooted,
                           _handle_sustain(PreHeld) \cup SoundingNotes(PreRooted),
                           PreRemaining, PreMap, FrozenNotes(PreHeld.frozen_voices))

\* the voice the placement rule names: the silent non-frozen voice with the
\* lowest id, else the sounding non-frozen voice with the highest midi_note,
\* the highest id among those tied on it
ReuseRule(vs, frozen_ids, voice_idx) ==
    LET silent == {i \in VoiceIds : vs[i].volume = 0 /\ i \notin frozen_ids}
        sounding == {i \in VoiceIds : vs[i].volume > 0 /\ i \notin frozen_ids}
    IN  IF silent # {}
        THEN voice_idx \in silent /\ \A j \in silent : voice_idx <= j
        ELSE /\ voice_idx \in sounding
             /\ \A j \in sounding :
                    /\ vs[j].midi_note <= vs[voice_idx].midi_note
                    /\ vs[j].midi_note = vs[voice_idx].midi_note => j <= voice_idx

RECURSIVE PlacementsFollowRule(_, _, _, _, _)
\* every note drawn by the sampling loop is placed by the rule
PlacementsFollowRule(vs, forbidden_notes, remaining, global_probability_map, frozen_ids) ==
    IF remaining <= 0 THEN TRUE
    ELSE \A r \in 0..(MaxDraw - 1) :
        LET selected_midi == _sample_from_probability_map(global_probability_map,
                                                           forbidden_notes, r)
            voice_idx == _find_or_steal_voice(vs)
        IN  IF selected_midi = NoNote
            THEN PlacementsFollowRule(vs, forbidden_notes, remaining - 1,
                                      global_probability_map, frozen_ids)
            ELSE /\ ReuseRule(vs, frozen_ids, voice_idx)
                 /\ PlacementsFollowRule(
                        [vs EXCEPT ![voice_idx].midi_note = selected_midi,
                                   ![voice_idx].volume = 1],
                        forbidden_notes \cup {selected_midi},
                        remaining - 1, global_probability_map, frozen_ids)

\* C26: a drawn MIDI value is placed in the silent non-frozen voice with the
\* lowest id if there is one; otherwise in the sounding non-frozen voice
\* with the highest midi_note, the highest id among voices tied on it.
C26_PlacementRule ==
    (pre.ticked /\ _get_active_ranks(PreHeld.ranks) # {})
        => PlacementsFollowRule(PreRooted,
                                _handle_sustain(PreHeld) \cup SoundingNotes(PreRooted),
                                PreRemaining, PreMap, FrozenIds(PreHeld.frozen_voices))

\* C27: at every tick boundary every voice with sustained = true also has
\* volume = true: no voice is sustained while silent.
C27_SustainedSounds ==
    pre.ticked => \A i \in VoiceIds : voices[i].sustained => voices[i].volume > 0

(***************************************************************************)
(* Density changes.                                                        *)
(***************************************************************************)
\* the density a rank had at the gci it recorded as previous_gci
PreviousDensity(rank) ==
    DensityTable[PopCount(GreyBits(BinaryToGray(rank.previous_gci))) + 1]

RECURSIVE SumPreviousDensity(_, _)
SumPreviousDensity(rs, n) ==
    IF n > NumRanks THEN 0
    ELSE PreviousDensity(rs[n]) + SumPreviousDensity(rs, n + 1)

\* the non-frozen voices the last pass silenced
Silenced ==
    {i \in VoiceIds : /\ i \notin FrozenIds(frozen_voices)
                      /\ pre.voices[i].volume > 0
                      /\ voices[i].volume = 0}

\* the last pass started, with the pedal up and nothing frozen, from a table
\* filled for the density the ranks had before their latest update, and
\* that update has lowered the total density
DensityDecreased ==
    /\ pre.ticked /\ ~pre.sustain /\ ~pre.previous_sustain
    /\ pre.frozen_voices = {}
    /\ SumDensity(pre.ranks, 1) < SumPreviousDensity(pre.ranks, 1)
    /\ Cardinality(Sounding(pre.voices))
           = Min(NumVoices, SumPreviousDensity(pre.ranks, 1))

\* C22: when the total density has decreased, after one tick exactly
\* min(number of voices, new total density) non-frozen voices sound, and
\* every surviving non-frozen voice is lower than every silenced voice.
C22_DensityDownsize ==
    DensityDecreased
        => /\ Cardinality(NonFrozenSounding) = Min(NumVoices, SumDensity(ranks, 1))
           /\ \A i \in Silenced, j \in NonFrozenSounding :
                  voices[j].midi_note < pre.voices[i].midi_note

\* C23: when every rank is at grey code 1111 the total density is 6 per
\* rank (48 for eight ranks), and after one tick every voice that is not
\* frozen sounds, whatever the key centre, the tonicizations and the voice
\* table before.
C23_AllRanksMaxFillsVoices ==
    (pre.ticked /\ \A n \in RankNumbers : ranks[n].grey_code = <<1, 1, 1, 1>>)
        => /\ SumDensity(ranks, 1) = 6 * NumRanks
           /\ \A i \in VoiceIds :
                  i \notin FrozenIds(frozen_voices) => voices[i].volume > 0

\* a pass with every rank at 1111 had to sample to fill the table
C23_Witness ==
    /\ pre.ticked
    /\ \A n \in RankNumbers : ranks[n].grey_code = <<1, 1, 1, 1>>
    /\ Cardinality(Sounding(PreRooted)) < NumVoices
    /\ \A i \in VoiceIds : voices[i].volume > 0

(***************************************************************************)
(* The sampling stage when the map runs out (SamplerSpec).                 *)
(***************************************************************************)
\* the inputs of the sampling stage that ran: its sustained notes, budget,
\* number of draws and admissible notes
SampledSustained == _handle_sustain(PreState)

SampledRemaining ==
    Min(NumVoices, SumDensity(pre.ranks, 1) + Cardinality(SampledSustained))
        - Cardinality(Sounding(pre.voices))

SampledAdmissible ==
    pre.global_probability_map \ (SampledSustained \cup SoundingNotes(pre.voices))

ScaleDegreeOffsets == <<0, 2, 4, 5, 7, 9, 11, 0>>

RankTonic(key_center_value, tonicization) ==
    IF tonicization = 9
    THEN ((key_center_value % 12) + 6) % 12
    ELSE ((key_center_value % 12) + ScaleDegreeOffsets[tonicization]) % 12

C31_RankTonic ==
    \A n \in RankNumbers :
        ranks[n].tonicization \in 1..9 =>
            LET tonic == RankTonic(key_center, ranks[n].tonicization)
            IN  /\ _get_rank_root(ranks[n], key_center) = tonic
                /\ (key_center + _get_scale_degree_offset(ranks[n].tonicization)) % 12
                       = tonic
                /\ (/\ pre.ticked
                    /\ ranks[n].density > 0
                    /\ Sounding(pre.voices) = {}
                    /\ _get_active_ranks(ranks) = {n})
                   => /\ \E i \in Sounding(voices) : voices[i].midi_note % 12 = tonic
                      /\ \E i \in Sounding(voices) :
                             voices[i].midi_note % 12 = (tonic + 7) % 12

(***************************************************************************)
(* The wire (WireSpec).                                                    *)
(***************************************************************************)
PlainAddress(head) == [head |-> head, rank_number |-> 0, tail |-> ""]

\* C32: for every value m in 0..127 a key-centre event on the canonical
\* address /keyCenter or on the alias /key_center sets key_center to the
\* full MIDI value m, and the two addresses have the same effect.
C32_KeyCentreAddresses ==
    [][\A head \in {"keyCenter", "key_center"}, m \in WireValues \cap Midi :
          listen(PlainAddress(head), m) => key_center' = m]_vars

RankAddress(rank_number, tail) == [head |-> "R", rank_number |-> rank_number, tail |-> tail]

\* C33: the value stored for a boolean-valued message depends only on
\* whether the integer is zero: a decoded /R{n}_{bits} message sets the
\* addressed bit to 1 for every value other than 0, negative values
\* included, and to 0 for value 0; a decoded /sustain message sets sustain
\* to true for every non-zero value and to false for 0.
C33_BooleanValues ==
    [][\A value \in WireValues :
          /\ \A n \in RankNumbers, bits \in {"1000", "0100"} :
                 listen(RankAddress(n, bits), value) =>
                     ranks'[n].grey_code[bit_map(bits) + 1] = IF value # 0 THEN 1 ELSE 0
          /\ listen(PlainAddress("sustain"), value) => sustain' = (value # 0)]_vars

\* the event changed nothing of the system state and did not set the flag
Dropped ==
    /\ UNCHANGED <<ranks, voices, sustain, key_center, previous_sustain, frozen_voices>>
    /\ state_change_pending' = state_change_pending

\* C34: a priority event with a value outside 1..8, a tonicization event
\* with a value outside 1..9, an event naming a rank that does not exist or a
\* key-centre value outside 0..127 is dropped: the system state is unchanged
\* and the dirty flag is not set; an in-range /R{n}_priority or
\* /R{n}_tonicization event sets exactly that rank's priority or
\* tonicization.
C34_RangeChecks ==
    [][\A value \in WireValues :
          /\ \A n \in WireRanks :
                 /\ (listen(RankAddress(n, "priority"), value)
                     /\ (n \notin RankNumbers \/ value \notin 1..8)) => Dropped
                 /\ (listen(RankAddress(n, "tonicization"), value)
                     /\ (n \notin RankNumbers \/ value \notin 1..9)) => Dropped
                 /\ \A bits \in {"1000", "0100"} :
                        (listen(RankAddress(n, bits), value) /\ n \notin RankNumbers)
                            => Dropped
                 /\ (listen(RankAddress(n, "priority"), value)
                     /\ n \in RankNumbers /\ value \in 1..8)
                        => ranks' = [ranks EXCEPT ![n].position = value]
                 /\ (listen(RankAddress(n, "tonicization"), value)
                     /\ n \in RankNumbers /\ value \in 1..9)
                        => ranks' = [ranks EXCEPT ![n].tonicization = value]
          /\ \A head \in {"keyCenter", "key_center"} :
                 (listen(PlainAddress(head), value) /\ value \notin Midi) => Dropped]_vars

(***************************************************************************)
(* The tonal functions (ToneSpec).                                         *)
(***************************************************************************)
\* the notes of 0..127 in the scale the claim gives a tonicization
InScale(key_center_value, tonicization) ==
    {midi \in Midi :
        ((midi - (key_center_value % 12)) % 12) \in
            (IF tonicization = 9 THEN whole_tone_offsets ELSE major_scale_offsets)}

\* C35: for every key centre in 0..127 and every rank, each valid
\* destination is a MIDI value of 0..127 whose pitch class is in the major
\* scale anchored at key_center mod 12 for tonicization 1..8 and in the
\* whole-tone scale anchored there for tonicization 9 (notes above the top
\* octave are left out, none is wrapped into another pitch class); so is
\* every note of the map a pass builds for one active rank.
C35_DestinationsInScale ==
    \A n \in RankNumbers :
        ranks[n].tonicization \in 1..9 =>
            /\ get_valid_destinations(ranks[n], key_center)
                   \subseteq InScale(key_center, ranks[n].tonicization)
            /\ (pre.ticked /\ _get_active_ranks(pre.ranks) = {n})
                   => PreMap \subseteq InScale(key_center, ranks[n].tonicization)

(***************************************************************************)
(* The pass on a state that breaks the invariants (HealSpec).              *)
(***************************************************************************)
\* C36: from a state with two sounding voices on the same midi_note, or
\* with a MIDI value entered twice in frozen_voices, one allocator pass
\* restores the invariants: after it no two sounding voices share a
\* midi_note and the MIDI values of frozen_voices are pairwise distinct.
C36_PassRestoresInvariants ==
    (/\ pre.ticked
     /\ DuplicateSounding(pre.voices) \/ DuplicateFrozen(pre.frozen_voices))
        => /\ ~DuplicateSounding(voices)
           /\ ~DuplicateFrozen(frozen_voices)

\* C37: the register-bias centre of a rank in the probability map is
\* key_center + 6 * (priority - 1) semitones: priority 1 is centred on the
\* key centre, each step to a larger priority number raises the centre by
\* half an octave, and the centre moves with key_center.
C37_RegisterBiasCentre ==
    \A n \in RankNumbers :
        priority_bias_center(ranks[n]) = key_center + 6 * (ranks[n].position - 1)

(***************************************************************************)
(* The copy a pass takes, the pedal edge and the emitted events.           *)
(***************************************************************************)
\* C38: the copy every allocator pass takes of its input is equal field for
\* field to the original: each rank keeps its previous_gci, gci, density,
\* grey_code, position and tonicization, so the direction previous_gci
\* versus gci the allocator sees, and the one left after the pass, is the
\* one set by the last bit update.
C38_CopyKeepsFields ==
    pre.ticked =>
        /\ SystemState_copy(PreState) = PreState
        /\ \A n \in RankNumbers :
               /\ Rank_copy(pre.ranks[n]) = pre.ranks[n]
               /\ ranks[n].gci - ranks[n].previous_gci
                      = pre.ranks[n].gci - pre.ranks[n].previous_gci

Quiescent ==
    /\ pc["listener"] \in {"recv", "stopped"}
    /\ pc["timer"] \in {"idle", "armed", "due", "expired"}

\* C40: a host that starts from the first (full) emission and applies every
\* emitted /voice_i_MIDI and /voice_i_Volume event in order holds, once the
\* passes run so far have sent their responses, the (midi_note, volume) of
\* the engine's voice array for every voice, and the emitter cache equals
\* both; this whether the passes ran in the listener thread or in the Timer
\* thread.
C40_HostFollowsEngine ==
    (Quiescent /\ \E i \in VoiceIds : host[i].known)
        => /\ host = TrackedStates(voices)
           /\ previous_voice_states = host

====
